---------------------------- MODULE Spec2Model ----------------------------
(***************************************************************************)
(* Model of the restaurant pricing service                                 *)
(* (restaurant-system/microservices/pricing-service/main.py).              *)
(*                                                                         *)
(* Money.  The service computes in Python floats (IEEE 754 doubles) and    *)
(* rounds to two digits when it builds a response.  Here a float is the    *)
(* exact double: a sign, an odd mantissa of at most 53 bits and a binary   *)
(* exponent.  Products, sums and differences are rounded to the nearest    *)
(* double, halves to the even mantissa, as the hardware does; round(x, 2)  *)
(* rounds the exact binary value to the nearest cent, halves to the even   *)
(* cent, and returns the double nearest to that decimal, as CPython does.  *)
(* Mantissas do not fit the 32-bit integers of TLC, so they are kept as     *)
(* sequences of limbs.  Infinities, NaN and subnormal numbers are outside  *)
(* the modelled values: every amount explored stays far inside the range   *)
(* of the normal doubles, and cent amounts stay below 2^31.                *)
(***************************************************************************)
EXTENDS Integers, Sequences, FiniteSets

VARIABLES
    hour,             \* hour of day shown by the server clock (datetime.now().hour)
    menu_cache,       \* redis entries "menu_items:<ids>"
    inventory_cache,  \* redis entries "inventory:<ids>"
    req,              \* the POST /pricing/dynamic requests, by request slot
    running,          \* the request whose coroutine holds the event loop, or 0
    rules,            \* one evaluation of the pricing rules on given facts
    order             \* last call of /pricing/calculate or /pricing/promo/{code}

vars == <<hour, menu_cache, inventory_cache, req, running, rules, order>>

----------------------------------------------------------------------------
(* Bounds of the explored inputs *)

\* longest list of line items in an order
MaxItems == 2
\* longest list of item ids in a pricing request
MaxIds == 2
\* largest minimum_stock of an inventory row
MaxMinimumStock == 1
\* number of /pricing/dynamic requests that can be in flight together
MaxRequests == 2

----------------------------------------------------------------------------
(* Natural numbers of any size: the sequence of their limbs, lowest limb   *)
(* first, without a zero limb at the high end; <<>> is 0.                  *)

LimbBits == 15
LimbBase == 32768

RECURSIVE Pow2(_)
Pow2(n) == IF n = 0 THEN 1 ELSE 2 * Pow2(n - 1)

RECURSIVE BitLen(_)
BitLen(n) == IF n = 0 THEN 0 ELSE 1 + BitLen(n \div 2)

RECURSIVE LowZeroBits(_)
LowZeroBits(n) == IF n % 2 = 1 THEN 0 ELSE 1 + LowZeroBits(n \div 2)

RECURSIVE BigTrim(_)
BigTrim(a) ==
    IF a # <<>> /\ a[Len(a)] = 0 THEN BigTrim(SubSeq(a, 1, Len(a) - 1)) ELSE a

RECURSIVE BigFromInt(_)
BigFromInt(n) ==
    IF n = 0 THEN <<>> ELSE <<n % LimbBase>> \o BigFromInt(n \div LimbBase)

RECURSIVE BigToInt(_)
BigToInt(a) == IF a = <<>> THEN 0 ELSE a[1] + LimbBase * BigToInt(Tail(a))

Limb(a, i) == IF i <= Len(a) THEN a[i] ELSE 0

RECURSIVE BigAddFrom(_, _, _, _)
BigAddFrom(a, b, i, carry) ==
    IF i > Len(a) /\ i > Len(b)
    THEN (IF carry = 0 THEN <<>> ELSE <<carry>>)
    ELSE LET x == Limb(a, i) + Limb(b, i) + carry
         IN  <<x % LimbBase>> \o BigAddFrom(a, b, i + 1, x \div LimbBase)

BigAdd(a, b) == BigAddFrom(a, b, 1, 0)

RECURSIVE BigSubFrom(_, _, _, _)
BigSubFrom(a, b, i, borrow) ==
    IF i > Len(a) THEN <<>>
    ELSE LET x == a[i] - Limb(b, i) - borrow
         IN  IF x < 0
             THEN <<x + LimbBase>> \o BigSubFrom(a, b, i + 1, 1)
             ELSE <<x>> \o BigSubFrom(a, b, i + 1, 0)

\* a - b for a >= b
BigSub(a, b) == BigTrim(BigSubFrom(a, b, 1, 0))

RECURSIVE BigCmpFrom(_, _, _)
BigCmpFrom(a, b, i) ==
    IF i = 0 THEN 0
    ELSE IF a[i] > b[i] THEN 1
    ELSE IF a[i] < b[i] THEN 0 - 1
    ELSE BigCmpFrom(a, b, i - 1)

\* -1, 0, 1 as a < b, a = b, a > b
BigCmp(a, b) ==
    IF Len(a) > Len(b) THEN 1
    ELSE IF Len(a) < Len(b) THEN 0 - 1
    ELSE BigCmpFrom(a, b, Len(a))

RECURSIVE BigMulSmallFrom(_, _, _, _)
BigMulSmallFrom(a, k, i, carry) ==
    IF i > Len(a) THEN (IF carry = 0 THEN <<>> ELSE <<carry>>)
    ELSE LET x == a[i] * k + carry
         IN  <<x % LimbBase>> \o BigMulSmallFrom(a, k, i + 1, x \div LimbBase)

\* a * k for 0 <= k < LimbBase
BigMulSmall(a, k) == IF k = 0 THEN <<>> ELSE BigMulSmallFrom(a, k, 1, 0)

LimbShift(a) == IF a = <<>> THEN <<>> ELSE <<0>> \o a

RECURSIVE BigMulFrom(_, _, _)
BigMulFrom(a, b, i) ==
    IF i > Len(b) THEN <<>>
    ELSE BigAdd(BigMulSmall(a, b[i]), LimbShift(BigMulFrom(a, b, i + 1)))

BigMul(a, b) == BigMulFrom(a, b, 1)

RECURSIVE BigDivSmallFrom(_, _, _, _, _)
BigDivSmallFrom(a, k, i, rem, quot) ==
    IF i = 0 THEN [quot |-> BigTrim(quot), rem |-> rem]
    ELSE LET cur == rem * LimbBase + a[i]
         IN  BigDivSmallFrom(a, k, i - 1, cur % k, <<cur \div k>> \o quot)

\* quotient and remainder of a by k, 0 < k < LimbBase
BigDivSmall(a, k) == BigDivSmallFrom(a, k, Len(a), 0, <<>>)

\* a * 2^n
BigShl(a, n) ==
    IF a = <<>> THEN <<>>
    ELSE [i \in 1..(n \div LimbBits) |-> 0] \o BigMulSmall(a, Pow2(n % LimbBits))

\* floor(a / 2^n)
BigShr(a, n) ==
    IF n \div LimbBits >= Len(a) THEN <<>>
    ELSE BigDivSmall(SubSeq(a, (n \div LimbBits) + 1, Len(a)),
                     Pow2(n % LimbBits)).quot

BigBitLen(a) ==
    IF a = <<>> THEN 0 ELSE LimbBits * (Len(a) - 1) + BitLen(a[Len(a)])

\* number of zero bits below the lowest one bit of a > 0
RECURSIVE BigLowZeroBits(_)
BigLowZeroBits(a) ==
    IF a[1] # 0 THEN LowZeroBits(a[1]) ELSE LimbBits + BigLowZeroBits(Tail(a))

BigIsOdd(a) == a # <<>> /\ a[1] % 2 = 1

\* a / 2^n (n > 0) rounded to the nearest integer, halves to the even one;
\* sticky says that a stands for a value slightly above a
BigShrRound(a, n, sticky) ==
    LET q == BigShr(a, n)
        c == BigCmp(BigShl(BigSub(a, BigShl(q, n)), 1), BigShl(<<1>>, n))
    IN  IF c > 0 \/ (c = 0 /\ (sticky \/ BigIsOdd(q))) THEN BigAdd(q, <<1>>) ELSE q

----------------------------------------------------------------------------
(* Python float: the double (-1)^sign * man * 2^exp with man odd and below *)
(* 2^53; a zero has man <<>> and exp 0 and keeps its sign.                 *)

\* bits of a double's mantissa
MantissaBits == 53
\* bits a decimal is scaled by before it is divided and rounded to a double
DecimalGuardBits == 90

Float(sign, man, exp) == [sign |-> sign, man |-> man, exp |-> exp]

\* the same value with an odd mantissa
Canon(sign, man, exp) ==
    IF man = <<>> THEN Float(sign, <<>>, 0)
    ELSE LET z == BigLowZeroBits(man)
         IN  Float(sign, BigShr(man, z), exp + z)

\* the double nearest to (-1)^sign * man * 2^exp, halves to the even mantissa
RoundF(sign, man, exp, sticky) ==
    LET excess == BigBitLen(man) - MantissaBits
    IN  IF excess <= 0 THEN Canon(sign, man, exp)
        ELSE Canon(sign, BigShrRound(man, excess, sticky), exp + excess)

IsZeroF(x) == x.man = <<>>

\* 0.0
PosZero == Float(0, <<>>, 0)

\* -x
NegF(x) == [x EXCEPT !.sign = 1 - x.sign]

\* x * y
MulF(x, y) ==
    RoundF((x.sign + y.sign) % 2, BigMul(x.man, y.man), x.exp + y.exp, FALSE)

Min(a, b) == IF a <= b THEN a ELSE b

\* x + y
AddF(x, y) ==
    IF IsZeroF(x) /\ IsZeroF(y)
    THEN (IF x.sign = 1 /\ y.sign = 1 THEN x ELSE PosZero)
    ELSE IF IsZeroF(x) THEN y
    ELSE IF IsZeroF(y) THEN x
    ELSE LET e == Min(x.exp, y.exp)
             a == BigShl(x.man, x.exp - e)
             b == BigShl(y.man, y.exp - e)
             c == BigCmp(a, b)
         IN  IF x.sign = y.sign THEN RoundF(x.sign, BigAdd(a, b), e, FALSE)
             ELSE IF c = 0 THEN PosZero
             ELSE IF c > 0 THEN RoundF(x.sign, BigSub(a, b), e, FALSE)
             ELSE RoundF(y.sign, BigSub(b, a), e, FALSE)

\* x - y
SubF(x, y) == AddF(x, NegF(y))

\* x < y
LtF(x, y) ==
    IF IsZeroF(x) /\ IsZeroF(y) THEN FALSE
    ELSE IF IsZeroF(x) THEN y.sign = 0
    ELSE IF IsZeroF(y) THEN x.sign = 1
    ELSE IF x.sign # y.sign THEN x.sign = 1
    ELSE LET e == Min(x.exp, y.exp)
             c == BigCmp(BigShl(x.man, x.exp - e), BigShl(y.man, y.exp - e))
         IN  IF x.sign = 0 THEN c < 0 ELSE c > 0

\* x == y
EqF(x, y) == (IsZeroF(x) /\ IsZeroF(y)) \/ x = y

\* x <= y
LeF(x, y) == LtF(x, y) \/ EqF(x, y)

Abs(n) == IF n < 0 THEN 0 - n ELSE n

\* float(n) for an int n
FromInt(n) == Canon(IF n < 0 THEN 1 ELSE 0, BigFromInt(Abs(n)), 0)

\* the double nearest to the decimal (-1)^sign * num / den, 0 < den < LimbBase
FromDecimalSigned(sign, num, den) ==
    LET d == BigDivSmall(BigShl(BigFromInt(num), DecimalGuardBits), den)
    IN  RoundF(sign, d.quot, 0 - DecimalGuardBits, d.rem # 0)

\* a float literal or float("...") of the decimal num / den
FromDecimal(num, den) ==
    FromDecimalSigned(IF num < 0 THEN 1 ELSE 0, Abs(num), den)

\* int(x) for a float x: the fraction is cut off
TruncF(x) ==
    LET n == IF x.exp >= 0 THEN BigToInt(BigShl(x.man, x.exp))
             ELSE BigToInt(BigShr(x.man, 0 - x.exp))
    IN  IF x.sign = 1 THEN 0 - n ELSE n

\* |x| * 100 rounded to the nearest integer, halves to the even one
CentsMagnitude(x) ==
    LET m == BigMulSmall(x.man, 100)
    IN  IF x.exp >= 0 THEN BigToInt(BigShl(m, x.exp))
        ELSE BigToInt(BigShrRound(m, 0 - x.exp, FALSE))

\* round(x, 2)
Round2(x) == FromDecimalSigned(x.sign, CentsMagnitude(x), 100)

----------------------------------------------------------------------------
(* Strings that are inspected character by character are tuples of        *)
(* one-character strings.  The characters are the ASCII letters and        *)
(* digits and three letters outside ASCII whose upper case is an ASCII     *)
(* letter or two; str.upper() is modelled on these characters only.        *)

LowerLetters == <<"a","b","c","d","e","f","g","h","i","j","k","l","m",
                  "n","o","p","q","r","s","t","u","v","w","x","y","z">>
UpperLetters == <<"A","B","C","D","E","F","G","H","I","J","K","L","M",
                  "N","O","P","Q","R","S","T","U","V","W","X","Y","Z">>
Digits == {"0","1","2","3","4","5","6","7","8","9"}

\* LATIN SMALL LETTER LONG S, LATIN SMALL LETTER SHARP S and
\* LATIN SMALL LETTER DOTLESS I, named by their code points
LongS == "U+017F"
SharpS == "U+00DF"
DotlessI == "U+0131"

Range(seq) == {seq[i] : i \in 1..Len(seq)}

\* c.upper() for one character: a string of one or two characters
UpperChar(c) ==
    CASE c \in Range(LowerLetters) ->
             <<UpperLetters[CHOOSE i \in 1..Len(LowerLetters) : LowerLetters[i] = c]>>
      [] c = LongS -> <<"S">>
      [] c = SharpS -> <<"S", "S">>
      [] c = DotlessI -> <<"I">>
      [] c \in Range(UpperLetters) \cup Digits -> <<c>>

\* str.upper()
RECURSIVE Upper(_)
Upper(s) == IF s = <<>> THEN <<>> ELSE UpperChar(Head(s)) \o Upper(Tail(s))

\* Optional values: None is the empty tuple, a present value v is <<v>>
None == <<>>
Some(v) == <<v>>

\* dict.get(key, default) on a record
Get(d, key, default) == IF key \in DOMAIN d THEN d[key] ELSE default

\* values of a JSON document: a number written as the decimal num / den
\* (den = 1 for an integer), or null
Number(num, den) == [json |-> "number", num |-> num, den |-> den]
Null == [json |-> "null"]

IsNumber(v) == v.json = "number"

\* float(v) for a JSON number
float(v) == FromDecimal(v.num, v.den)

\* int(v) for a JSON number: the fraction is cut off
int(v) == IF v.num < 0 THEN 0 - ((0 - v.num) \div v.den) ELSE v.num \div v.den

\* how a call ends: it returns a value or raises an exception
Return(value) == [value |-> value]
Raise(exception) == [exception |-> exception]
Raised(outcome) == "exception" \in DOMAIN outcome

----------------------------------------------------------------------------
(* PricingEngine.__init__: configuration defaults *)

\* TAX_RATE "0.0875" = 875 / 10000
BaseTaxRateNum == 875
BaseTaxRateDen == 10000
\* DELIVERY_FEE "3.99", in cents
BaseDeliveryFeeCents == 399
\* FREE_DELIVERY_MINIMUM "25.00", in cents
FreeDeliveryMinimumCents == 2500

base_tax_rate == FromDecimal(BaseTaxRateNum, BaseTaxRateDen)
base_delivery_fee == FromDecimal(BaseDeliveryFeeCents, 100)
free_delivery_minimum == FromDecimal(FreeDeliveryMinimumCents, 100)

----------------------------------------------------------------------------
(* PricingEngine.apply_promo_code *)

CodeWELCOME10 == <<"W","E","L","C","O","M","E","1","0">>
CodeSAVE5 == <<"S","A","V","E","5">>
CodeFREESHIP == <<"F","R","E","E","S","H","I","P">>

\* value and min_order in hundredths (0.10 -> 10, 5.00 -> 500, 15.00 -> 1500)
WelcomeValue == 10
WelcomeMinOrderCents == 1500
SaveValueCents == 500
SaveMinOrderCents == 2000
FreeshipValueCents == 399
FreeshipMinOrderCents == 0

\* the promo_codes dict, as the list of its (key, value) pairs
promo_codes ==
    << <<CodeWELCOME10, [type |-> "percentage",
                         value |-> FromDecimal(WelcomeValue, 100),
                         min_order |-> FromDecimal(WelcomeMinOrderCents, 100)]>>,
       <<CodeSAVE5, [type |-> "fixed",
                     value |-> FromDecimal(SaveValueCents, 100),
                     min_order |-> FromDecimal(SaveMinOrderCents, 100)]>>,
       <<CodeFREESHIP, [type |-> "free_delivery",
                        value |-> FromDecimal(FreeshipValueCents, 100),
                        min_order |-> FromDecimal(FreeshipMinOrderCents, 100)]>> >>

\* promo_codes.get(key): Some(definition) or None
PromoGet(key) ==
    IF \E i \in 1..Len(promo_codes) : promo_codes[i][1] = key
    THEN Some(promo_codes[CHOOSE i \in 1..Len(promo_codes) : promo_codes[i][1] = key][2])
    ELSE None

\* the descriptor of a percentage code
PercentageInfo(promo, promo_code, discount_amount) ==
    [type |-> "promo_code", code |-> promo_code,
     description |-> <<TruncF(MulF(promo.value, FromInt(100))), "% off your order">>,
     amount |-> discount_amount]

\* the descriptor of a fixed code
FixedInfo(promo, promo_code) ==
    [type |-> "promo_code", code |-> promo_code,
     description |-> <<"$", promo.value, " off your order">>,
     amount |-> promo.value]

\* PromoBranch with the percentage taken as a whole number (10 for 10%)
PromoBranchPercentNotScaled(promo, promo_code, subtotal) ==
    IF promo.type = "percentage"
    THEN Some(PercentageInfo(promo, promo_code,
                  MulF(subtotal, MulF(promo.value, FromInt(100)))))
    ELSE IF promo.type = "fixed"
    THEN Some(FixedInfo(promo, promo_code))
    ELSE None

\* the if/elif on promo["type"] and the final "return None"
PromoBranch(promo, promo_code, subtotal) ==
    IF promo.type = "percentage"
    THEN Some(PercentageInfo(promo, promo_code, MulF(subtotal, promo.value)))
    ELSE IF promo.type = "fixed"
    THEN Some(FixedInfo(promo, promo_code))
    ELSE None

\* PromoBelowMinimum with the minimum-order check left out
PromoBelowMinimumNeverRejects(promo, subtotal) == FALSE

\* the early return "if subtotal < promo['min_order']"
PromoBelowMinimum(promo, subtotal) == LtF(subtotal, promo.min_order)

apply_promo_code(promo_code, subtotal) ==
    LET Apply(promo) ==
            IF promo = None THEN None
            ELSE IF PromoBelowMinimum(promo[1], subtotal) THEN None
            ELSE PromoBranch(promo[1], promo_code, subtotal)
    IN  Apply(PromoGet(Upper(promo_code)))

----------------------------------------------------------------------------
(* PricingEngine.calculate_order_total *)

\* the loop "for item in request.items":
\* subtotal += float(unit_price) * int(quantity); float(None) and int(None)
\* raise TypeError
RECURSIVE SubtotalLoop(_, _, _)
SubtotalLoop(items, i, subtotal) ==
    IF i > Len(items) THEN Return(subtotal)
    ELSE LET unit_price == Get(items[i], "unit_price", Number(0, 1))
             quantity == Get(items[i], "quantity", Number(1, 1))
         IN  IF ~IsNumber(unit_price)
             THEN Raise("float() argument must be a string or a real number, not 'NoneType'")
             ELSE IF ~IsNumber(quantity)
             THEN Raise("int() argument must be a string, a bytes-like object or a real number, not 'NoneType'")
             ELSE SubtotalLoop(items, i + 1,
                      AddF(subtotal, MulF(float(unit_price), FromInt(int(quantity)))))

FreeDeliveryEntry ==
    [type |-> "free_delivery",
     description |-> <<"Free delivery on orders over $", free_delivery_minimum>>,
     amount |-> base_delivery_fee]

\* BelowFreeDeliveryMinimum with <= for <
AtOrBelowFreeDeliveryMinimum(subtotal) == LeF(subtotal, free_delivery_minimum)

\* "if subtotal < self.free_delivery_minimum"
BelowFreeDeliveryMinimum(subtotal) == LtF(subtotal, free_delivery_minimum)

\* the fee is charged: order type "delivery" below the free minimum
DeliveryCharged(order_type, subtotal) ==
    order_type = "delivery" /\ BelowFreeDeliveryMinimum(subtotal)

\* the else branch: the informational free_delivery entry is appended
DeliveryWaived(order_type, subtotal) ==
    order_type = "delivery" /\ ~BelowFreeDeliveryMinimum(subtotal)

\* max(0, x): the int 0 unless x > 0; as a factor the int 0 acts as 0.0
MaxZero(x) == IF LtF(PosZero, x) THEN x ELSE PosZero

\* TotalAmount with the discount not subtracted
TotalWithoutDiscount(subtotal, tax_amount, delivery_fee, discount_amount) ==
    AddF(AddF(subtotal, tax_amount), delivery_fee)

\* total_amount before rounding
TotalAmount(subtotal, tax_amount, delivery_fee, discount_amount) ==
    SubF(AddF(AddF(subtotal, tax_amount), delivery_fee), discount_amount)

\* the promo step: Some(descriptor) or None
PromoStep(request, subtotal) ==
    IF request.promo_code # None /\ request.promo_code[1] # <<>>
    THEN apply_promo_code(request.promo_code[1], subtotal)
    ELSE None

\* "return OrderCalculationResponse(...)": every amount rounded to 2 digits
OrderResponse(subtotal, tax_amount, delivery_fee, discount_amount, total_amount, applied_discounts) ==
    [subtotal |-> Round2(subtotal),
     tax_amount |-> Round2(tax_amount),
     delivery_fee |-> Round2(delivery_fee),
     discount_amount |-> Round2(discount_amount),
     total_amount |-> Round2(total_amount),
     applied_discounts |-> applied_discounts]

\* "total_amount = ..." and the return
TotalStep(subtotal, tax_amount, delivery_fee, discount_amount, applied_discounts) ==
    OrderResponse(subtotal, tax_amount, delivery_fee, discount_amount,
                  TotalAmount(subtotal, tax_amount, delivery_fee, discount_amount),
                  applied_discounts)

\* taxable_amount and tax_amount, then the total
TaxStep(subtotal, delivery_fee, discount_amount, applied_discounts) ==
    TotalStep(subtotal,
              MulF(MaxZero(SubF(subtotal, discount_amount)), base_tax_rate),
              delivery_fee, discount_amount, applied_discounts)

\* "if discount_info": its amount is the discount and it is appended to
\* applied_discounts; then the tax
DiscountStep(subtotal, delivery_fee, applied_discounts, discount_info) ==
    TaxStep(subtotal, delivery_fee,
            IF discount_info # None THEN discount_info[1].amount ELSE PosZero,
            applied_discounts \o discount_info)

\* the method from the delivery fee on, given the subtotal of the loop
OrderTotals(request, subtotal) ==
    DiscountStep(subtotal,
                 IF DeliveryCharged(request.order_type, subtotal)
                 THEN base_delivery_fee ELSE PosZero,
                 IF DeliveryWaived(request.order_type, subtotal)
                 THEN <<FreeDeliveryEntry>> ELSE <<>>,
                 PromoStep(request, subtotal))

calculate_order_total(request) ==
    LET AfterLoop(subtotal) ==
            IF Raised(subtotal) THEN subtotal
            ELSE Return(OrderTotals(request, subtotal.value))
    IN  AfterLoop(SubtotalLoop(request.items, 1, PosZero))

----------------------------------------------------------------------------
(* PricingEngine.calculate_dynamic_pricing: the rules for one item *)

\* multipliers and discounts in hundredths: 1.15 -> 115, 0.10 -> 10
LowSurge == 115
CriticalSurge == 125
PeakSurge == 110
HappyHourDiscount == 10
LateNightDiscount == 15

HappyHourFrom == 14
HappyHourTo == 17
PeakHourFrom == 18
PeakHourTo == 20
LateNightFrom == 21

\* the float of a literal written in hundredths: 1.15, 0.10, ...
low_surge == FromDecimal(LowSurge, 100)
critical_surge == FromDecimal(CriticalSurge, 100)
peak_surge == FromDecimal(PeakSurge, 100)
happy_hour_discount == FromDecimal(HappyHourDiscount, 100)
late_night_discount == FromDecimal(LateNightDiscount, 100)

Hours == 0..23

\* {item[key]: item for item in payload.get("data", [])}: a later item with
\* the same key replaces an earlier one
Lookup(payload, key) ==
    LET data == Get(payload, "data", <<>>)
        keys == {data[i][key] : i \in 1..Len(data)}
    IN  [k \in keys |->
            data[CHOOSE i \in 1..Len(data) :
                    /\ data[i][key] = k
                    /\ \A j \in 1..Len(data) : data[j][key] = k => j <= i]]

\* dict.get(key): Some(value) or None
DictGet(d, key) == IF key \in DOMAIN d THEN Some(d[key]) ELSE None

\* the if/elif on the stock levels, in the order the code tests them
InventoryRule(current_stock, minimum_stock) ==
    IF current_stock <= minimum_stock * 2
    THEN [surge_multiplier |-> Some(low_surge),
          reason |-> "Low inventory surge pricing"]
    ELSE IF current_stock <= minimum_stock
    THEN [surge_multiplier |-> Some(critical_surge),
          reason |-> "Critical inventory surge pricing"]
    ELSE [surge_multiplier |-> None, reason |-> "Base price"]

\* TimeRule without the "and not surge_multiplier" guards
TimeRuleIgnoringSurge(current_hour, surge_multiplier) ==
    IF HappyHourFrom <= current_hour /\ current_hour <= HappyHourTo
    THEN "happy"
    ELSE IF PeakHourFrom <= current_hour /\ current_hour <= PeakHourTo
    THEN "peak"
    ELSE IF current_hour >= LateNightFrom
    THEN "late"
    ELSE "none"

\* the if/elif on current_hour: which time rule applies
TimeRule(current_hour, surge_multiplier) ==
    IF HappyHourFrom <= current_hour /\ current_hour <= HappyHourTo
       /\ surge_multiplier = None
    THEN "happy"
    ELSE IF PeakHourFrom <= current_hour /\ current_hour <= PeakHourTo
            /\ surge_multiplier = None
    THEN "peak"
    ELSE IF current_hour >= LateNightFrom /\ surge_multiplier = None
    THEN "late"
    ELSE "none"

\* MenuFact that answers a missing id with a zero-priced placeholder
MenuFactOrPlaceholder(menu_items, item_id) ==
    IF item_id \in DOMAIN menu_items THEN Some(menu_items[item_id])
    ELSE Some([id |-> item_id, price |-> Number(0, 1)])

\* menu_items.get(item_id)
MenuFact(menu_items, item_id) == DictGet(menu_items, item_id)

\* original_price * (1 - discount_percentage)
Discounted(original_price, discount_percentage) ==
    MulF(original_price, SubF(FromInt(1), discount_percentage))

\* one pass of the loop body for an id that has a menu fact with a price:
\* the PricingResponse appended
PriceEntry(item_id, menu_item, inventory_item, current_hour) ==
    LET original_price == float(menu_item.price)
        inv == IF inventory_item # None
               THEN InventoryRule(inventory_item[1].current_stock,
                                  inventory_item[1].minimum_stock)
               ELSE [surge_multiplier |-> None, reason |-> "Base price"]
        inv_price == IF inv.surge_multiplier # None
                     THEN MulF(original_price, inv.surge_multiplier[1])
                     ELSE original_price
        time == TimeRule(current_hour, inv.surge_multiplier)
    IN  [item_id |-> item_id,
         original_price |-> original_price,
         dynamic_price |->
             Round2(CASE time = "happy" ->
                           Discounted(original_price, happy_hour_discount)
                      [] time = "peak" ->
                           MulF(original_price, peak_surge)
                      [] time = "late" ->
                           Discounted(original_price, late_night_discount)
                      [] OTHER -> inv_price),
         discount_percentage |->
             CASE time = "happy" -> Some(happy_hour_discount)
               [] time = "late" -> Some(late_night_discount)
               [] OTHER -> None,
         surge_multiplier |->
             IF time = "peak" THEN Some(peak_surge)
             ELSE inv.surge_multiplier,
         reason |->
             CASE time = "happy" -> "Happy hour discount"
               [] time = "peak" -> "Peak hour surge pricing"
               [] time = "late" -> "Late night discount"
               [] OTHER -> inv.reason]

\* one pass of the loop body: it returns the entries to append, none when
\* the id has no menu fact ("continue"), or raises when the fact's price is
\* null (float(None))
PriceItem(item_id, menu_items, inventory_items, current_hour) ==
    LET menu_item == MenuFact(menu_items, item_id)
    IN  IF menu_item = None THEN Return(<<>>)
        ELSE IF ~IsNumber(menu_item[1].price)
        THEN Raise("float() argument must be a string or a real number, not 'NoneType'")
        ELSE Return(<<PriceEntry(item_id, menu_item[1],
                                 DictGet(inventory_items, item_id), current_hour)>>)

\* the loop "for item_id in item_ids"; clock[i] is what datetime.now().hour
\* gives during pass i
RECURSIVE PricingLoop(_, _, _, _, _, _)
PricingLoop(item_ids, i, menu_items, inventory_items, clock, pricing_results) ==
    IF i > Len(item_ids) THEN Return(pricing_results)
    ELSE LET pass == PriceItem(item_ids[i], menu_items, inventory_items, clock[i])
         IN  IF Raised(pass) THEN pass
             ELSE PricingLoop(item_ids, i + 1, menu_items, inventory_items, clock,
                              pricing_results \o pass.value)

\* calculate_dynamic_pricing once both payloads are fetched: the lookup
\* dictionaries and the loop
calculate_dynamic_pricing(item_ids, menu_data, inventory_data, clock) ==
    PricingLoop(item_ids, 1, Lookup(menu_data, "id"),
                Lookup(inventory_data, "menu_item_id"), clock, <<>>)

----------------------------------------------------------------------------
(* Inputs of the pricing rules *)

\* menu item ids known to the explored catalogs
ItemIds == {1, 2}

\* what a catalog can hold for an id: item 1 costs 0.10, has a null price
\* or is not on the menu; item 2 costs 9.99
MenuEntries(id) ==
    IF id = 1 THEN {None, Some(Number(10, 100)), Some(Null)}
    ELSE {Some(Number(999, 100))}

IdLists == UNION {[1..n -> ItemIds] : n \in 0..MaxIds}

\* the ids of a set in ascending order
RECURSIVE Ascending(_)
Ascending(S) ==
    IF S = {} THEN <<>>
    ELSE LET m == CHOOSE x \in S : \A y \in S : x <= y
         IN  <<m>> \o Ascending(S \ {m})

\* a catalog's menu table for the given ids
MenuTables(ids) ==
    {t \in [ids -> UNION {MenuEntries(id) : id \in ids}] :
        \A id \in ids : t[id] \in MenuEntries(id)}

\* stock levels of a row: current_stock from 0 to just over twice the minimum
StockLevels ==
    UNION {[current_stock : 0..(2 * m + 1), minimum_stock : {m}] :
              m \in 0..MaxMinimumStock}

\* the stock rows a catalog can hold for an id: any levels for item 1, the
\* minimum reached for item 2
StockRows(id) ==
    IF id = 1 THEN StockLevels ELSE {[current_stock |-> 1, minimum_stock |-> 1]}

\* a catalog's inventory table for the given ids: each id has stock levels
\* or no row
InventoryTables(ids) ==
    {t \in [ids -> {None} \cup {Some(l) : l \in UNION {StockRows(id) : id \in ids}}] :
        \A id \in ids : t[id] = None \/ t[id][1] \in StockRows(id)}

\* GET /items/menu_items?filter[id][_in]=<ids>: rows of the requested ids
MenuRows(table, item_ids) ==
    LET found == Ascending({id \in Range(item_ids) : table[id] # None})
    IN  [data |-> [i \in 1..Len(found) |-> [id |-> found[i], price |-> table[found[i]][1]]]]

\* GET /items/inventory?filter[menu_item_id][_in]=<ids>
InventoryRows(table, item_ids) ==
    LET found == Ascending({id \in Range(item_ids) : table[id] # None})
    IN  [data |-> [i \in 1..Len(found) |->
                      [menu_item_id |-> found[i],
                       current_stock |-> table[found[i]][1].current_stock,
                       minimum_stock |-> table[found[i]][1].minimum_stock]]]

\* the catalog's answer to a failed query: no "data" key
ErrorPayload == [errors |-> <<"FORBIDDEN">>]

\* what the clock shows during the n passes of one call: one hour, or an
\* hour and from some pass on the next hour
Clocks(n) ==
    {[i \in 1..n |-> IF k > 0 /\ i >= k THEN (h + 1) % 24 ELSE h] :
        h \in Hours, k \in 0..n}

RulesIdle == [op |-> "idle"]

\* the pricing rules run on the rows a catalog returns
EvaluateRules ==
    /\ rules.op = "idle"
    /\ \E item_ids \in IdLists :
         \E menu \in MenuTables(Range(item_ids)),
            inventory \in InventoryTables(Range(item_ids)),
            clock \in Clocks(Len(item_ids)) :
           LET menu_data == MenuRows(menu, item_ids)
               inventory_data == InventoryRows(inventory, item_ids)
           IN  rules' = [op |-> "priced", item_ids |-> item_ids,
                         menu_data |-> menu_data, inventory_data |-> inventory_data,
                         clock |-> clock,
                         outcome |-> calculate_dynamic_pricing(
                                         item_ids, menu_data, inventory_data, clock)]
    /\ UNCHANGED <<hour, menu_cache, inventory_cache, req, running, order>>

RulesReturn ==
    /\ rules.op # "idle"
    /\ rules' = RulesIdle
    /\ UNCHANGED <<hour, menu_cache, inventory_cache, req, running, order>>

----------------------------------------------------------------------------
(* POST /pricing/dynamic with the redis cache, the catalog and the clock.  *)
(* Requests are coroutines on one event loop: a coroutine runs alone from  *)
(* the point where it is resumed to its next await or to its return (redis *)
(* calls block, they do not yield).  It awaits the catalog's answer in     *)
(* "await client.get" and the closing of the client when it leaves         *)
(* "async with"; while one waits, another is accepted and runs.  The clock *)
(* and the expiry of redis entries go on at any time.                      *)

\* the catalog the service talks to: both items cost 10.00; item 1 has no
\* inventory row, item 2 is well stocked
CatalogMenu == [id \in ItemIds |-> Some(Number(1000, 100))]
CatalogInventory ==
    [id \in ItemIds |->
        IF id = 2 THEN Some([current_stock |-> 9, minimum_stock |-> 1]) ELSE None]

\* the item_ids lists clients send
RequestIdLists == {<<1, 2>>}

\* the request slots
Requests == 1..MaxRequests

\* json.dumps / json.loads: the cache holds text
JsonDumps(data) == <<"json", data>>
JsonLoads(text) == text[2]

\* redis_client.setex(key, ttl, value); the key is the list of ids ("1:2")
Setex(cache, key, value) ==
    [k \in DOMAIN cache \cup {key} |-> IF k = key THEN value ELSE cache[k]]

\* the entry's time to live is over
Expired(cache, key) == [k \in DOMAIN cache \ {key} |-> cache[k]]

ReqIdle == [pc |-> "idle"]

\* get_dynamic_pricing is called: the event loop starts the request's
\* coroutine
PostDynamic(r) ==
    /\ running = 0
    /\ req[r].pc = "idle"
    /\ \E item_ids \in RequestIdLists :
         req' = [req EXCEPT ![r] =
                    [pc |-> "get_menu", item_ids |-> item_ids, menu_data |-> None,
                     inventory_data |-> None, pricing_results |-> <<>>,
                     status |-> 0]]
    /\ running' = r
    /\ UNCHANGED <<hour, menu_cache, inventory_cache, rules, order>>

\* get_menu_item_data: "if cached_data: return json.loads(cached_data)"
MenuCacheHit(r) ==
    /\ running = r
    /\ req[r].pc = "get_menu"
    /\ req[r].item_ids \in DOMAIN menu_cache
    /\ req' = [req EXCEPT ![r].pc = "get_inventory",
                          ![r].menu_data =
                              Some(JsonLoads(menu_cache[req[r].item_ids]))]
    /\ UNCHANGED <<hour, menu_cache, inventory_cache, running, rules, order>>

\* get_menu_item_data: no entry in the cache; the query is sent and the
\* coroutine waits for the answer
MenuCacheMiss(r) ==
    /\ running = r
    /\ req[r].pc = "get_menu"
    /\ req[r].item_ids \notin DOMAIN menu_cache
    /\ req' = [req EXCEPT ![r].pc = "await_menu"]
    /\ running' = 0
    /\ UNCHANGED <<hour, menu_cache, inventory_cache, rules, order>>

\* leaving "async with httpx.AsyncClient() as client" awaits the client's
\* __aexit__: the coroutine goes on at once (it keeps the event loop) or is
\* suspended while the connection is closed (the event loop is free)
AfterClientExit(r) == {r, 0}

\* get_menu_item_data: the catalog answers, with rows or with an error
\* body; whatever it answers is cached for 5 minutes and returned through
\* the exit of "async with"
MenuFetch(r) ==
    /\ running = 0
    /\ req[r].pc = "await_menu"
    /\ \E data \in {MenuRows(CatalogMenu, req[r].item_ids), ErrorPayload} :
         /\ menu_cache' = Setex(menu_cache, req[r].item_ids, JsonDumps(data))
         /\ req' = [req EXCEPT ![r].pc = "get_inventory",
                               ![r].menu_data = Some(data)]
    /\ running' \in AfterClientExit(r)
    /\ UNCHANGED <<hour, inventory_cache, rules, order>>

\* the client's __aexit__ is done: the event loop resumes the coroutine
\* that was suspended in it
ClientClosed(r) ==
    /\ running = 0
    /\ req[r].pc \in {"get_inventory", "loop"}
    /\ running' = r
    /\ UNCHANGED <<hour, menu_cache, inventory_cache, req, rules, order>>

\* get_menu_item_data: client.get or response.json() raises; the endpoint's
\* except clause answers 500
MenuFetchRaises(r) ==
    /\ running = 0
    /\ req[r].pc = "await_menu"
    /\ req' = [req EXCEPT ![r].pc = "failed", ![r].status = 500]
    /\ UNCHANGED <<hour, menu_cache, inventory_cache, running, rules, order>>

\* get_inventory_data: cache hit
InventoryCacheHit(r) ==
    /\ running = r
    /\ req[r].pc = "get_inventory"
    /\ req[r].item_ids \in DOMAIN inventory_cache
    /\ req' = [req EXCEPT ![r].pc = "loop",
                          ![r].inventory_data =
                              Some(JsonLoads(inventory_cache[req[r].item_ids]))]
    /\ UNCHANGED <<hour, menu_cache, inventory_cache, running, rules, order>>

\* get_inventory_data: no entry in the cache; the coroutine waits
InventoryCacheMiss(r) ==
    /\ running = r
    /\ req[r].pc = "get_inventory"
    /\ req[r].item_ids \notin DOMAIN inventory_cache
    /\ req' = [req EXCEPT ![r].pc = "await_inventory"]
    /\ running' = 0
    /\ UNCHANGED <<hour, menu_cache, inventory_cache, rules, order>>

\* get_inventory_data: the catalog answers; cached for 1 minute and
\* returned through the exit of "async with"
InventoryFetch(r) ==
    /\ running = 0
    /\ req[r].pc = "await_inventory"
    /\ \E data \in {InventoryRows(CatalogInventory, req[r].item_ids), ErrorPayload} :
         /\ inventory_cache' =
                Setex(inventory_cache, req[r].item_ids, JsonDumps(data))
         /\ req' = [req EXCEPT ![r].pc = "loop", ![r].inventory_data = Some(data)]
    /\ running' \in AfterClientExit(r)
    /\ UNCHANGED <<hour, menu_cache, rules, order>>

\* get_inventory_data: the call raises
InventoryFetchRaises(r) ==
    /\ running = 0
    /\ req[r].pc = "await_inventory"
    /\ req' = [req EXCEPT ![r].pc = "failed", ![r].status = 500]
    /\ UNCHANGED <<hour, menu_cache, inventory_cache, running, rules, order>>

\* what the clock shows during the n passes of a loop that starts at hour h
ClocksFrom(h, n) == {clock \in Clocks(n) : n = 0 \/ clock[1] = h}

\* the loop "for item_id in item_ids" and the return: datetime.now().hour is
\* read in every pass, and the clock may reach the next hour between two
\* passes.  The endpoint answers 200 with the list, or 500 when a pass
\* raises.
PriceLoop(r) ==
    /\ running = r
    /\ req[r].pc = "loop"
    /\ \E clock \in ClocksFrom(hour, Len(req[r].item_ids)) :
         LET outcome == calculate_dynamic_pricing(
                            req[r].item_ids, req[r].menu_data[1],
                            req[r].inventory_data[1], clock)
         IN  /\ hour' = IF clock = <<>> THEN hour ELSE clock[Len(clock)]
             /\ req' = IF Raised(outcome)
                       THEN [req EXCEPT ![r].pc = "failed", ![r].status = 500]
                       ELSE [req EXCEPT ![r].pc = "done", ![r].status = 200,
                                        ![r].pricing_results = outcome.value]
    /\ running' = 0
    /\ UNCHANGED <<menu_cache, inventory_cache, rules, order>>

\* the response has been sent
Respond(r) ==
    /\ req[r].pc \in {"done", "failed"}
    /\ req' = [req EXCEPT ![r] = ReqIdle]
    /\ UNCHANGED <<hour, menu_cache, inventory_cache, running, rules, order>>

\* the server clock reaches the next hour
Tick ==
    /\ hour' = (hour + 1) % 24
    /\ UNCHANGED <<menu_cache, inventory_cache, req, running, rules, order>>

\* redis drops an entry whose time to live is over
ExpireMenu ==
    /\ \E key \in DOMAIN menu_cache : menu_cache' = Expired(menu_cache, key)
    /\ UNCHANGED <<hour, inventory_cache, req, running, rules, order>>

ExpireInventory ==
    /\ \E key \in DOMAIN inventory_cache :
         inventory_cache' = Expired(inventory_cache, key)
    /\ UNCHANGED <<hour, menu_cache, req, running, rules, order>>

----------------------------------------------------------------------------
(* Inputs of the order endpoints *)

\* line item dicts: a key may be missing, a value may be null, a quantity
\* may be zero, negative or fractional
LineItems ==
    { [unit_price |-> Number(1000, 100), quantity |-> Number(1, 1)],
      [unit_price |-> Number(1000, 100), quantity |-> Number(2, 1)],
      [unit_price |-> Number(1250, 100), quantity |-> Number(2, 1)],
      [unit_price |-> Number(125, 100)],
      [unit_price |-> Number(125, 100), quantity |-> Number(0 - 1, 1)],
      [unit_price |-> Number(40, 100), quantity |-> Number(15, 10)],
      [unit_price |-> Number(499, 100), quantity |-> Number(2, 1)],
      [quantity |-> Number(0, 1)],
      [unit_price |-> Null, quantity |-> Number(1, 1)],
      [unit_price |-> Number(1000, 100), quantity |-> Null] }

ItemLists == UNION {[1..n -> LineItems] : n \in 0..MaxItems}

OrderTypes == {"delivery", "pickup"}

PromoCodeStrings ==
    { CodeWELCOME10,
      <<"w","e","l","c","o","m","e","1","0">>,
      CodeSAVE5,
      <<LongS,"a","v","e","5">>,
      CodeFREESHIP,
      <<"f","r","e","e","s","h","i","p">>,
      <<"s","t","r","a",SharpS,"e">>,
      <<"B","O","G","U","S">> }

\* the promo codes sent with orders
OrderPromoCodes ==
    { <<"w","e","l","c","o","m","e","1","0">>,
      CodeSAVE5,
      <<LongS,"a","v","e","5">>,
      CodeFREESHIP,
      <<"B","O","G","U","S">> }

\* promo_code: absent, the empty string, or a code
PromoCodeInputs == {None, Some(<<>>)} \cup {Some(c) : c \in OrderPromoCodes}

\* the subtotal query parameter of /pricing/promo/{code}, in cents
PromoSubtotals == {0, 1, 1499, 1500, 1999, 2000, 2500}

----------------------------------------------------------------------------
(* Endpoints /pricing/calculate and /pricing/promo/{code} *)

OrderIdle == [op |-> "idle"]

\* POST /pricing/calculate: the engine's result, or 500 when it raises
PostCalculate ==
    /\ order.op = "idle"
    /\ \E items \in ItemLists, order_type \in OrderTypes, promo_code \in PromoCodeInputs :
         LET request == [items |-> items, order_type |-> order_type,
                         promo_code |-> promo_code]
         IN  \E outcome \in {calculate_order_total(request)} :
               order' =
                 IF Raised(outcome)
                 THEN [op |-> "calculate", request |-> request, status |-> 500,
                       detail |-> <<"Order calculation failed: ", outcome.exception>>]
                 ELSE [op |-> "calculate", request |-> request, status |-> 200,
                       response |-> outcome.value]
    /\ UNCHANGED <<hour, menu_cache, inventory_cache, req, running, rules>>

\* GET /pricing/promo/{code}?subtotal=  (nothing in its try block raises
\* for a string code and a finite subtotal)
GetPromo ==
    /\ order.op = "idle"
    /\ \E code \in PromoCodeStrings, subtotal \in PromoSubtotals :
         \E discount_info \in {apply_promo_code(code, FromDecimal(subtotal, 100))} :
             order' = [op |-> "promo", code |-> code,
                       subtotal |-> FromDecimal(subtotal, 100),
                       status |-> 200,
                       response |->
                           IF discount_info # None
                           THEN [valid |-> TRUE, discount |-> discount_info[1]]
                           ELSE [valid |-> FALSE,
                                 message |-> "Invalid or expired promo code"]]
    /\ UNCHANGED <<hour, menu_cache, inventory_cache, req, running, rules>>

\* the response has been sent
OrderReturn ==
    /\ order.op # "idle"
    /\ order' = OrderIdle
    /\ UNCHANGED <<hour, menu_cache, inventory_cache, req, running, rules>>

----------------------------------------------------------------------------
Init ==
    /\ hour = 0
    /\ menu_cache = <<>>
    /\ inventory_cache = <<>>
    /\ req = [r \in Requests |-> ReqIdle]
    /\ running = 0
    /\ rules = RulesIdle
    /\ order = OrderIdle

Next ==
    \/ \E r \in Requests :
          \/ PostDynamic(r)
          \/ MenuCacheHit(r) \/ MenuCacheMiss(r)
          \/ MenuFetch(r) \/ MenuFetchRaises(r) \/ ClientClosed(r)
          \/ InventoryCacheHit(r) \/ InventoryCacheMiss(r)
          \/ InventoryFetch(r) \/ InventoryFetchRaises(r)
          \/ PriceLoop(r) \/ Respond(r)
    \/ Tick \/ ExpireMenu \/ ExpireInventory

Spec == Init /\ [][Next]_vars

OrderNext == PostCalculate \/ GetPromo \/ OrderReturn

OrderSpec == Init /\ [][OrderNext]_vars

RulesNext == EvaluateRules \/ RulesReturn

RulesSpec == Init /\ [][RulesNext]_vars

----------------------------------------------------------------------------
(* Claims about /pricing/calculate and /pricing/promo/{code} *)

\* a call of /pricing/calculate that was answered with totals
Calculated == order.op = "calculate" /\ order.status = 200

\* a float of a response, in cents
InCents(x) == IF x.sign = 1 THEN 0 - CentsMagnitude(x) ELSE CentsMagnitude(x)

EntriesOfType(ds, type) == {i \in 1..Len(ds) : ds[i].type = type}

\* the requested promo code is in the table once put in upper case
KnownCode(code) == PromoGet(Upper(code)) # None

\* the unrounded subtotal of the answered call
OrderSubtotal == SubtotalLoop(order.request.items, 1, PosZero).value

\* C3: /pricing/promo resolves FREESHIP, in any letter case and for every
\* subtotal >= 0, to a descriptor whose amount is the definition's value 3.99.
\* The code has no branch for the kind free_delivery and answers "not valid".
C3_FreeshipResolves ==
    (/\ order.op = "promo"
     /\ Upper(order.code) = CodeFREESHIP
     /\ LeF(PosZero, order.subtotal))
        => /\ order.response.valid
           /\ order.response.discount.amount = FromDecimal(FreeshipValueCents, 100)

\* C4 as claimed: every answered order, negative quantities included, has
\* discount_amount <= subtotal.
C4_DiscountAtMostSubtotal ==
    Calculated => LeF(order.response.discount_amount, order.response.subtotal)

\* C4 amended: every answered order whose subtotal is not negative has
\* discount_amount <= subtotal.
C4_DiscountAtMostNonNegativeSubtotal ==
    (Calculated /\ LeF(PosZero, order.response.subtotal))
        => LeF(order.response.discount_amount, order.response.subtotal)

\* an order with a line of quantity <= 0 that still earns a promo discount
C4_Witness ==
    /\ Calculated
    /\ \E i \in 1..Len(order.request.items) :
          int(Get(order.request.items[i], "quantity", Number(1, 1))) <= 0
    /\ LeF(PosZero, order.response.subtotal)
    /\ LtF(PosZero, order.response.discount_amount)

\* subtotal + tax_amount + delivery_fee - discount_amount on the returned
\* values, in cents
SumOfRounded(r) ==
    InCents(r.subtotal) + InCents(r.tax_amount) + InCents(r.delivery_fee)
        - InCents(r.discount_amount)

\* C5 as claimed: the returned total equals the sum of the returned parts.
C5_TotalIsSumOfRoundedParts ==
    Calculated => InCents(order.response.total_amount) = SumOfRounded(order.response)

\* C5 amended: the returned total is within one cent of
\* subtotal + tax_amount + delivery_fee - discount_amount.
C5_TotalWithinOneCentOfRoundedParts ==
    Calculated =>
        Abs(InCents(order.response.total_amount) - SumOfRounded(order.response)) <= 1

\* an order whose returned total is one cent off the sum of the returned parts
C5_Witness ==
    /\ Calculated
    /\ LtF(PosZero, order.response.discount_amount)
    /\ Abs(InCents(order.response.total_amount) - SumOfRounded(order.response)) = 1

\* C6: delivery fee only for order type "delivery"; below the free minimum the
\* fee is the base fee and there is no free_delivery entry; from the minimum
\* on the fee is 0 and one free_delivery entry with the base fee as amount
\* comes first in applied_discounts and is not counted in discount_amount;
\* any other order type has fee 0 and no entry.
C6_DeliveryFee ==
    Calculated =>
        LET r == order.response
            free == EntriesOfType(r.applied_discounts, "free_delivery")
            promo == EntriesOfType(r.applied_discounts, "promo_code")
        IN  /\ (order.request.order_type = "delivery"
                  /\ LtF(OrderSubtotal, free_delivery_minimum))
                => (r.delivery_fee = Round2(base_delivery_fee) /\ free = {})
            /\ (order.request.order_type = "delivery"
                  /\ ~LtF(OrderSubtotal, free_delivery_minimum))
                => /\ IsZeroF(r.delivery_fee)
                   /\ free = {1}
                   /\ r.applied_discounts[1].amount = base_delivery_fee
                   /\ \A i \in promo : i > 1
                   /\ IF promo = {} THEN IsZeroF(r.discount_amount)
                      ELSE \E i \in promo :
                              r.discount_amount = Round2(r.applied_discounts[i].amount)
            /\ order.request.order_type # "delivery"
                => (IsZeroF(r.delivery_fee) /\ free = {})

\* a delivery order at or over the free minimum that also has a promo entry
C6_Witness ==
    /\ Calculated
    /\ order.request.order_type = "delivery"
    /\ ~LtF(OrderSubtotal, free_delivery_minimum)
    /\ Len(order.response.applied_discounts) = 2
    /\ order.response.applied_discounts[1].type = "free_delivery"
    /\ order.response.applied_discounts[2].type = "promo_code"
    /\ LtF(PosZero, order.response.discount_amount)

\* the call carries a promo code
WithPromoCode == order.op = "calculate" /\ order.request.promo_code # None

\* the promo code of the answered call is unknown, or known with the
\* subtotal below its minimum order
PromoDoesNotResolve ==
    /\ Calculated
    /\ WithPromoCode
    /\ LET code == order.request.promo_code[1]
       IN  \/ ~KnownCode(code)
           \/ /\ KnownCode(code)
              /\ LtF(OrderSubtotal, PromoGet(Upper(code))[1].min_order)

\* C7: a promo code never fails the order: a call with a promo code is
\* answered with totals exactly when the same call without promo code is;
\* and for an unknown code, or a known one below its minimum order, the
\* discount is 0, there is no promo_code entry, and the other amounts are
\* those of the same order without promo code.
C7_UnresolvedPromoIsNoPromo ==
    WithPromoCode =>
        LET plain == calculate_order_total(
                         [order.request EXCEPT !.promo_code = None])
        IN  /\ (order.status = 200) = ~Raised(plain)
            /\ PromoDoesNotResolve =>
                  LET r == order.response
                  IN  /\ IsZeroF(r.discount_amount)
                      /\ EntriesOfType(r.applied_discounts, "promo_code") = {}
                      /\ r.subtotal = plain.value.subtotal
                      /\ r.tax_amount = plain.value.tax_amount
                      /\ r.delivery_fee = plain.value.delivery_fee
                      /\ r.total_amount = plain.value.total_amount

\* SAVE5 on an order between 0 and its minimum order
C7_Witness ==
    /\ PromoDoesNotResolve
    /\ Upper(order.request.promo_code[1]) = CodeSAVE5
    /\ LtF(PosZero, order.response.subtotal)
    /\ LtF(PosZero, order.response.tax_amount)

----------------------------------------------------------------------------
(* Claims about the pricing rules (RulesSpec) *)

\* the rules ran and returned a result list
Priced == rules.op = "priced" /\ ~Raised(rules.outcome)

\* the inventory row handed to the rules for an id: Some(row) or None
InventoryRowOf(item_id) ==
    DictGet(Lookup(rules.inventory_data, "menu_item_id"), item_id)

\* the menu row handed to the rules for an id: Some(row) or None
MenuRowOf(item_id) == DictGet(Lookup(rules.menu_data, "id"), item_id)

\* the result entry is the plain surge of the given multiplier and reason
IsSurge(entry, multiplier, reason) ==
    /\ entry.surge_multiplier = Some(multiplier)
    /\ entry.dynamic_price = Round2(MulF(entry.original_price, multiplier))
    /\ entry.discount_percentage = None
    /\ entry.reason = reason

\* C1: at every hour, an item whose inventory row has
\* current_stock <= minimum_stock is priced at round(original * 1.25, 2)
\* with surge_multiplier 1.25, no discount and the critical-surge reason.
\* The code tests current_stock <= 2 * minimum_stock first, so such an item
\* gets the 1.15 surge.
C1_CriticalSurge ==
    Priced =>
        \A i \in 1..Len(rules.outcome.value) :
            LET entry == rules.outcome.value[i]
                row == InventoryRowOf(entry.item_id)
            IN  (row # None /\ row[1].current_stock <= row[1].minimum_stock)
                    => IsSurge(entry, critical_surge,
                               "Critical inventory surge pricing")

\* C2: at every hour, an item whose inventory row has
\* minimum_stock < current_stock <= 2 * minimum_stock is priced at
\* round(original * 1.15, 2) with surge_multiplier 1.15, no discount and the
\* low-inventory reason; no time-of-day rule touches it.
C2_LowSurgeSkipsTimeRules ==
    Priced =>
        \A i \in 1..Len(rules.outcome.value) :
            LET entry == rules.outcome.value[i]
                row == InventoryRowOf(entry.item_id)
            IN  (/\ row # None
                 /\ row[1].minimum_stock < row[1].current_stock
                 /\ row[1].current_stock <= 2 * row[1].minimum_stock)
                    => IsSurge(entry, low_surge, "Low inventory surge pricing")

\* a low-stock item priced while the clock shows 15 h at every pass
C2_Witness ==
    /\ Priced
    /\ \A i \in 1..Len(rules.clock) : rules.clock[i] = 15
    /\ \E i \in 1..Len(rules.outcome.value) :
          LET row == InventoryRowOf(rules.outcome.value[i].item_id)
          IN  /\ row # None
              /\ row[1].minimum_stock < row[1].current_stock
              /\ row[1].current_stock <= 2 * row[1].minimum_stock
              /\ LtF(PosZero, rules.outcome.value[i].dynamic_price)

\* the requested ids that have a menu row, in request order
RECURSIVE IdsWithMenuRow(_)
IdsWithMenuRow(item_ids) ==
    IF item_ids = <<>> THEN <<>>
    ELSE (IF MenuRowOf(Head(item_ids)) # None THEN <<Head(item_ids)>> ELSE <<>>)
         \o IdsWithMenuRow(Tail(item_ids))

\* a requested id has a menu row whose price is null
SomeRowWithoutPrice ==
    \E i \in 1..Len(rules.item_ids) :
        /\ MenuRowOf(rules.item_ids[i]) # None
        /\ ~IsNumber(MenuRowOf(rules.item_ids[i])[1].price)

\* C8: an id without a menu row never makes the call raise (it raises only
\* for a row whose price is null); the result has, in request order, exactly
\* one entry per requested id that has a menu row, carrying that row's
\* price, and nothing for an id without one (no placeholder, no zero-priced
\* entry); an empty request gives an empty result.
C8_MissingMenuRowsAreDropped ==
    rules.op = "priced" =>
        /\ Raised(rules.outcome) = SomeRowWithoutPrice
        /\ ~Raised(rules.outcome) =>
              /\ [i \in 1..Len(rules.outcome.value) |-> rules.outcome.value[i].item_id]
                   = IdsWithMenuRow(rules.item_ids)
              /\ \A i \in 1..Len(rules.outcome.value) :
                    LET entry == rules.outcome.value[i]
                    IN  /\ entry.original_price
                             = float(MenuRowOf(entry.item_id)[1].price)
                        /\ LtF(PosZero, entry.original_price)
                        /\ LtF(PosZero, entry.dynamic_price)
        /\ rules.item_ids = <<>> => rules.outcome = Return(<<>>)

\* a request for two ids of which only the second has a menu row
C8_Witness ==
    /\ Priced
    /\ Len(rules.item_ids) = 2
    /\ MenuRowOf(rules.item_ids[1]) = None
    /\ Len(rules.outcome.value) = 1
    /\ rules.outcome.value[1].item_id = rules.item_ids[2]

----------------------------------------------------------------------------
(* Claims about POST /pricing/dynamic (Spec) *)

\* C9: the result of a call is what the rules give for its ids and facts at
\* one single clock reading.  The code reads the clock in every pass of the
\* loop, so two items of one call can fall under different time rules.
C9_OneClockReadingPerCall ==
    \A r \in Requests :
        req[r].pc = "done" =>
            \E h \in Hours :
                Return(req[r].pricing_results)
                  = calculate_dynamic_pricing(
                        req[r].item_ids, req[r].menu_data[1],
                        req[r].inventory_data[1],
                        [i \in 1..Len(req[r].item_ids) |-> h])

HasItemData(payload) == "data" \in DOMAIN payload

\* C10: a fetch that fails ends the request in a service error: the rules
\* never run on a payload without item data, and no such payload is kept
\* in the cache.  The code caches and uses whatever body the catalog sends.
C10_FailedFetchIsServiceError ==
    /\ \A key \in DOMAIN menu_cache : HasItemData(JsonLoads(menu_cache[key]))
    /\ \A key \in DOMAIN inventory_cache :
          HasItemData(JsonLoads(inventory_cache[key]))
    /\ \A r \in Requests :
          req[r].pc \in {"loop", "done"}
              => (HasItemData(req[r].menu_data[1])
                    /\ HasItemData(req[r].inventory_data[1]))

============================================================================
